---- MODULE Spec2Model ----
(***************************************************************************)
(* A model of deforum/generate.py: generate(args, root, frame,             *)
(* return_sample) and the helpers it calls (load_img, load_mask_latent,    *)
(* prepare_mask).  One call of generate is a sequence of steps, one action *)
(* per block of the function; root.p and the first-result record of root   *)
(* persist between calls.                                                  *)
(*                                                                         *)
(* Strings are sequences of one-character strings, so that str.split and   *)
(* re.sub are computed over characters.  Python's None is a distinguished  *)
(* value of each field's type.  Floats are written in tenths or as small   *)
(* integers (strength 5 is 0.5).                                           *)
(***************************************************************************)
EXTENDS Integers, Sequences, FiniteSets, TLC

VARIABLES pc, args, args0, frame, return_sample, parsed_prompt, init_image,
          mask_image, mask, branches, processed, results, exc, trace, evals,
          p, written, root, root0

vars == <<pc, args, args0, frame, return_sample, parsed_prompt, init_image,
          mask_image, mask, branches, processed, results, exc, trace, evals,
          p, written, root, root0>>

(***************************************************************************)
(* Bounds of the exploration.                                              *)
(***************************************************************************)
MaxPieces == 2
MaxDim == 2
MaxFrame == 1

(***************************************************************************)
(* Values.                                                                 *)
(***************************************************************************)
None == "None"
NoneSeed == 0 - 1
NoPrompt == <<None>>
\* Tick stands for the backtick character, which a TLA+ string cannot hold
Tick == "^"
NegMarker == <<"-", "-", "n", "e", "g">>

NoImage == [kind |-> "None", data |-> "none", width |-> 0, height |-> 0, alpha |-> FALSE]
NoArray == [kind |-> "None", d0 |-> 0, d1 |-> 0, d2 |-> 0]
NoMask == [kind |-> "None", input |-> "none", width |-> 0, height |-> 0,
           brightness |-> 1, contrast |-> 1, inverted |-> FALSE]
NoExc == [type |-> "none", line |-> 0]
NoProcessed == [seed |-> NoneSeed, info |-> None, images |-> <<>>]

Raise(type, line) == [type |-> type, line |-> line]

(***************************************************************************)
(* str.find and str.split(sep), over characters.                           *)
(***************************************************************************)
OccursAt(s, sep, i) ==
    /\ i >= 1
    /\ i + Len(sep) - 1 <= Len(s)
    /\ SubSeq(s, i, i + Len(sep) - 1) = sep

Find(s, sep, from) ==
    LET C == {i \in from..Len(s) : OccursAt(s, sep, i)}
    IN  IF C = {} THEN 0 ELSE CHOOSE i \in C : \A j \in C : i <= j

RECURSIVE split(_, _)
split(s, sep) ==
    LET i == Find(s, sep, 1)
    IN  IF i = 0 THEN <<s>>
        ELSE <<SubSeq(s, 1, i - 1)>> \o split(SubSeq(s, i + Len(sep), Len(s)), sep)

(***************************************************************************)
(* The evaluator of one delimited expression, parse_weight(m, frame), and  *)
(* str() of its result.  The body "t" is the frame variable; every other   *)
(* body is malformed and makes the evaluator fail.                         *)
(***************************************************************************)
WellFormed(w_raw) == w_raw = <<Tick, "t", Tick>>

parse_weight(w_raw, f) == <<ToString(f)>>

(***************************************************************************)
(* math_parser: backtick [\S\s]*? backtick, under re.VERBOSE: a backtick,  *)
(* the shortest run of any characters, a backtick.                         *)
(* NextMatch is the leftmost match at or after pos, as [s, e], or          *)
(* [s |-> 0, e |-> 0] when there is none.                                  *)
(***************************************************************************)
GreedyNextMatch(s, pos) ==
    LET i == Find(s, <<Tick>>, pos)
        C == IF i = 0 THEN {} ELSE {j \in (i + 1)..Len(s) : s[j] = Tick}
    IN  IF C = {} THEN [s |-> 0, e |-> 0]
        ELSE [s |-> i, e |-> CHOOSE j \in C : \A k \in C : k <= j]

NextMatch(s, pos) ==
    LET i == Find(s, <<Tick>>, pos)
        j == IF i = 0 THEN 0 ELSE Find(s, <<Tick>>, i + 1)
    IN  IF j = 0 THEN [s |-> 0, e |-> 0] ELSE [s |-> i, e |-> j]

(***************************************************************************)
(* re.sub(math_parser, lambda m: str(parse_weight(m, frame)), prompt):     *)
(* the text between matches is copied, each match is replaced by the       *)
(* evaluator result.     ReSubCalls is the sequence of evaluator calls made *)
(* (the matched text and the frame passed), cut at the first that fails.   *)
(***************************************************************************)
RECURSIVE ReSubFrom(_, _, _)
ReSubFrom(s, pos, f) ==
    LET m == NextMatch(s, pos)
    IN  IF m.s = 0 THEN SubSeq(s, pos, Len(s))
        ELSE SubSeq(s, pos, m.s - 1)
               \o parse_weight(SubSeq(s, m.s, m.e), f)
               \o ReSubFrom(s, m.e + 1, f)

ReSub(s, f) == ReSubFrom(s, 1, f)

RECURSIVE ReSubCallsFrom(_, _, _)
ReSubCallsFrom(s, pos, f) ==
    LET m == NextMatch(s, pos)
        w == SubSeq(s, m.s, m.e)
    IN  IF m.s = 0 THEN <<>>
        ELSE IF ~WellFormed(w) THEN <<[w_raw |-> w, frame |-> f]>>
        ELSE <<[w_raw |-> w, frame |-> f]>> \o ReSubCallsFrom(s, m.e + 1, f)

ReSubCalls(s, f) == ReSubCallsFrom(s, 1, f)

ReSubFails(s, f) ==
    \E k \in 1..Len(ReSubCalls(s, f)) : ~WellFormed(ReSubCalls(s, f)[k].w_raw)

(***************************************************************************)
(* numpy / PIL conversions.  An array is its shape (d0, d1, d2); a PIL     *)
(* image is its size (width, height) and where its pixels come from.       *)
(***************************************************************************)
\* rearrange(t, 'c h w -> h w c')
rearrange(t) == [kind |-> "ndarray", d0 |-> t.d1, d1 |-> t.d2, d2 |-> t.d0]

\* np.random.rand(d0, d1, d2)
rand(d0, d1, d2) == [kind |-> "ndarray", d0 |-> d0, d1 |-> d1, d2 |-> d2]

\* Image.fromarray(a): rows are the first axis, columns the second
fromarray(a, data) ==
    [kind |-> "PIL", data |-> data, width |-> a.d1, height |-> a.d0, alpha |-> FALSE]

\* load_img(path, shape, use_alpha_as_mask), when the file opens: (image, mask_image)
load_img(path, shape, use_alpha_as_mask) ==
    LET image == [kind |-> "PIL", data |-> path, width |-> shape[1],
                  height |-> shape[2], alpha |-> FALSE]
        alpha == [kind |-> "PIL", data |-> path, width |-> shape[1],
                  height |-> shape[2], alpha |-> TRUE]
    IN  <<image, IF use_alpha_as_mask THEN alpha ELSE NoImage>>

\* a PIL image has size, width and height, and no attribute shape
HasShape(image) == image.kind = "ndarray"

\* load_mask_latent(mask_input, shape): resized to (shape[-1], shape[-2])
load_mask_latent(mask_input, shape) ==
    [kind |-> "L", input |-> mask_input, width |-> shape[Len(shape)],
     height |-> shape[Len(shape) - 1], brightness |-> 1, contrast |-> 1,
     inverted |-> FALSE]

\* prepare_mask(mask_input, mask_shape, mask_brightness_adjust,
\*              mask_contrast_adjust, invert_mask): the mask, or the
\* exception of line 87, where the name PIL is not bound
prepare_mask(mask_input, mask_shape, mask_brightness_adjust, mask_contrast_adjust, invert_mask) ==
    LET m0 == load_mask_latent(mask_input, mask_shape)
        m1 == IF mask_brightness_adjust # 1
              THEN [m0 EXCEPT !.brightness = mask_brightness_adjust] ELSE m0
        m2 == IF mask_contrast_adjust # 1
              THEN [m1 EXCEPT !.contrast = mask_contrast_adjust] ELSE m1
    IN  IF invert_mask THEN [ok |-> FALSE, exc |-> Raise("NameError", 87), mask |-> NoMask]
        ELSE [ok |-> TRUE, exc |-> NoExc, mask |-> m2]

(***************************************************************************)
(* The inputs of a call.  Prompts are the concatenations of at most        *)
(* MaxPieces pieces; image sizes range over 1..MaxDim; frames over         *)
(* 0..MaxFrame.  The three families of calls vary the prompt, the          *)
(* init-image inputs and the mask inputs around a common base call.        *)
(***************************************************************************)
Pieces == {<<"a">>, NegMarker, <<Tick>>, <<Tick, "t", Tick>>}

RECURSIVE Concats(_)
Concats(n) ==
    IF n = 0 THEN {<<>>}
    ELSE LET S == Concats(n - 1) IN S \cup {s \o q : s \in S, q \in Pieces}

Prompts == Concats(MaxPieces) \cup {NoPrompt}
Dims == 1..MaxDim
Frames == 0..MaxFrame
Strengths == {0, 5}
InitRefs == {<<None, FALSE>>, <<"", FALSE>>, <<"init.png", FALSE>>, <<"init.png", TRUE>>}
MaskAdjusts == {<<1, 1, FALSE>>, <<2, 3, TRUE>>}

Tensor(c, h, w) == [kind |-> "tensor", d0 |-> c, d1 |-> h, d2 |-> w]

MkArgs(prompt, W, H, strength, use_init, s0, sample, ref, use_mask, mask_file, overlay, adj) ==
    [prompt |-> prompt, W |-> W, H |-> H, strength |-> strength,
     use_init |-> use_init, strength_0_no_init |-> s0,
     init_sample |-> IF sample THEN Tensor(3, H, W) ELSE NoArray,
     init_image |-> ref[1], use_alpha_as_mask |-> ref[2],
     use_mask |-> use_mask, mask_file |-> mask_file, overlay_mask |-> overlay,
     mask_brightness_adjust |-> adj[1], mask_contrast_adjust |-> adj[2],
     invert_mask |-> adj[3]]

PromptCalls ==
    {[args |-> MkArgs(pr, 1, 2, 5, FALSE, TRUE, FALSE, <<None, FALSE>>,
                      FALSE, None, FALSE, <<1, 1, FALSE>>),
      frame |-> f, return_sample |-> FALSE] : pr \in Prompts, f \in Frames}

\* calls that vary the geometry and the init-image inputs
GeometryCalls ==
    {[args |-> MkArgs(<<"a">>, W, H, 5, ui, TRUE, sm, ref,
                      FALSE, None, FALSE, <<1, 1, FALSE>>),
      frame |-> 0, return_sample |-> FALSE] :
        W \in Dims, H \in Dims, ui \in BOOLEAN, sm \in BOOLEAN, ref \in InitRefs}

\* calls that vary the inputs of the strength policy
PolicyCalls ==
    {[args |-> MkArgs(<<"a">>, 1, 2, st, ui, s0, sm, ref,
                      FALSE, None, FALSE, <<1, 1, FALSE>>),
      frame |-> 0, return_sample |-> FALSE] :
        st \in Strengths, ui \in BOOLEAN, s0 \in BOOLEAN, sm \in BOOLEAN,
        ref \in {<<None, FALSE>>, <<"init.png", FALSE>>}}

InitCalls == GeometryCalls \cup PolicyCalls

MaskCalls ==
    {[args |-> MkArgs(<<"a">>, 1, 2, 5, ui, TRUE, sm, ref, um, mf, ov, adj),
      frame |-> 0, return_sample |-> rs] :
        ui \in BOOLEAN, sm \in BOOLEAN, ref \in InitRefs, um \in BOOLEAN,
        mf \in {None, "mask.png"}, ov \in BOOLEAN, adj \in MaskAdjusts,
        rs \in BOOLEAN}

\* what processing.process_images(p) can return: the seed used, the info
\* string and the images produced
Processeds ==
    {[seed |-> 1, info |-> "info 1", images |-> <<"out 1">>],
     [seed |-> 2, info |-> "info 2", images |-> <<"out 2">>]}

(***************************************************************************)
(* The state before the first call: root.p has no field set by generate,   *)
(* the first-result record of root is empty.                               *)
(***************************************************************************)
EmptyP == [width |-> 0, height |-> 0, prompt |-> NoPrompt,
           negative_prompt |-> NoPrompt, denoising_strength |-> NoneSeed,
           init_images |-> <<>>, mask |-> NoMask]
EmptyRoot == [initial_seed |-> NoneSeed, initial_info |-> None, first_frame |-> None]

\* the value of args while no call is running
IdleArgs == MkArgs(<<"a">>, 1, 1, 0, FALSE, FALSE, FALSE, <<None, FALSE>>,
                   FALSE, None, FALSE, <<1, 1, FALSE>>)

Init ==
    /\ pc = "idle"
    /\ args = IdleArgs
    /\ args0 = args
    /\ frame = 0
    /\ return_sample = FALSE
    /\ parsed_prompt = NoPrompt
    /\ init_image = NoImage
    /\ mask_image = NoImage
    /\ mask = NoMask
    /\ branches = {}
    /\ processed = NoProcessed
    /\ results = <<>>
    /\ exc = NoExc
    /\ trace = <<>>
    /\ evals = <<>>
    /\ p = EmptyP
    /\ written = {}
    /\ root = EmptyRoot
    /\ root0 = root

(***************************************************************************)
(* generate, lines 91-103: the call binds its arguments, asserts that the  *)
(* prompt is present and substitutes the delimited expressions.            *)
(***************************************************************************)
Call(c) ==
    /\ pc = "idle"
    /\ args' = c.args
    /\ args0' = c.args
    /\ frame' = c.frame
    /\ return_sample' = c.return_sample
    /\ init_image' = NoImage
    /\ mask_image' = NoImage
    /\ mask' = NoMask
    /\ branches' = {}
    /\ processed' = NoProcessed
    /\ results' = <<>>
    /\ written' = {}
    /\ root0' = root
    /\ UNCHANGED <<p, root>>
    /\ IF c.args.prompt = NoPrompt
       THEN /\ exc' = Raise("AssertionError", 93)
            /\ pc' = "raised"
            /\ evals' = <<>>
            /\ parsed_prompt' = NoPrompt
            /\ trace' = <<>>
       ELSE /\ evals' = ReSubCalls(c.args.prompt, c.frame)
            /\ trace' = <<"substitute">>
            /\ IF ReSubFails(c.args.prompt, c.frame)
               THEN /\ exc' = Raise("ExpressionError", 103)
                    /\ pc' = "raised"
                    /\ parsed_prompt' = NoPrompt
               ELSE /\ exc' = NoExc
                    /\ pc' = "setup"
                    /\ parsed_prompt' = ReSub(c.args.prompt, c.frame)

(***************************************************************************)
(* Lines 106-129: the scalar fields of root.p are written, then the prompt *)
(* is split on --neg.  The split is unpacked into two names, which raises  *)
(* ValueError when it has more than two parts.  width and height stand for *)
(* the scalar fields of lines 109-122, which are all copied from args in   *)
(* the same way.                                                           *)
(***************************************************************************)
Setup ==
    /\ pc = "setup"
    /\ LET prompt_split == split(parsed_prompt, NegMarker)
           scalars == [p EXCEPT !.width = args.W, !.height = args.H]
       IN  IF Len(prompt_split) > 2
           THEN /\ p' = scalars
                /\ written' = written \cup {"width", "height"}
                /\ exc' = Raise("ValueError", 126)
                /\ pc' = "raised"
                /\ trace' = trace \o <<"populate_scalars">>
           ELSE /\ p' = [scalars EXCEPT
                           !.prompt = prompt_split[1],
                           !.negative_prompt =
                               IF Len(prompt_split) > 1 THEN prompt_split[2] ELSE <<>>]
                /\ written' = written \cup {"width", "height", "prompt",
                                              "negative_prompt"}
                /\ exc' = exc
                /\ pc' = "strength"
                /\ trace' = trace \o <<"populate_scalars", "split_prompt">>
    /\ UNCHANGED <<args, args0, frame, return_sample, parsed_prompt, init_image,
                   mask_image, mask, branches, processed, results, evals,
                   root, root0>>

(***************************************************************************)
(* Lines 131-135: the strength policy, then p.denoising_strength.          *)
(***************************************************************************)
StrengthIgnoringFlag(a) ==
    IF ~a.use_init /\ a.strength > 0 THEN 0 ELSE a.strength

\* lines 131-134: the value of args.strength after the policy
ResolvedStrength(a) ==
    IF ~a.use_init /\ a.strength > 0 /\ a.strength_0_no_init THEN 0 ELSE a.strength

StrengthPolicy ==
    /\ pc = "strength"
    /\ args' = [args EXCEPT !.strength = ResolvedStrength(args)]
    /\ p' = [p EXCEPT !.denoising_strength = ResolvedStrength(args)]
    /\ written' = written \cup {"denoising_strength"}
    /\ pc' = "resolve"
    /\ trace' = trace \o <<"strength">>
    /\ UNCHANGED <<args0, frame, return_sample, parsed_prompt, init_image,
                   mask_image, mask, branches, processed, results, exc, evals,
                   root, root0>>

(***************************************************************************)
(* Lines 136-151: the init image is the carried-over sample, or the loaded *)
(* init reference, or noise.  Opening the reference can fail.              *)
(***************************************************************************)
InitBranchExplicitFirst(a) ==
    IF a.use_init /\ a.init_image # None /\ a.init_image # "" THEN "ExplicitInit"
    ELSE IF a.init_sample # NoArray THEN "CarriedOverSample"
    ELSE "SyntheticNoise"

\* the conditions of lines 139, 143 and 148
InitBranch(a) ==
    IF a.init_sample # NoArray THEN "CarriedOverSample"
    ELSE IF a.use_init /\ a.init_image # None /\ a.init_image # "" THEN "ExplicitInit"
    ELSE "SyntheticNoise"

ResolveInit ==
    /\ pc = "resolve"
    /\ trace' = trace \o <<"resolve_init">>
    /\ branches' = branches \cup {InitBranch(args)}
    /\ IF InitBranch(args) = "CarriedOverSample"
       THEN /\ args' = [args EXCEPT !.init_sample = rearrange(args.init_sample)]
            /\ init_image' = fromarray(rearrange(args.init_sample), "sample")
            /\ mask_image' = NoImage
            /\ pc' = "mask"
            /\ exc' = exc
       ELSE IF InitBranch(args) = "ExplicitInit"
       THEN /\ args' = args
            /\ \E opened \in BOOLEAN :
                 IF opened
                 THEN LET r == load_img(args.init_image, <<args.W, args.H>>,
                                        args.use_alpha_as_mask)
                      IN  /\ init_image' = r[1]
                          /\ mask_image' = r[2]
                          /\ pc' = "mask"
                          /\ exc' = exc
                 ELSE /\ init_image' = NoImage
                      /\ mask_image' = NoImage
                      /\ pc' = "raised"
                      /\ exc' = Raise("FetchError", 33)
       ELSE /\ args' = args
            /\ init_image' = fromarray(rand(args.W, args.H, 3), "noise")
            /\ mask_image' = NoImage
            /\ pc' = "mask"
            /\ exc' = exc
    /\ UNCHANGED <<args0, frame, return_sample, parsed_prompt, mask, processed,
                   results, evals, p, written, root, root0>>

(***************************************************************************)
(* Lines 154-170: with use_mask, the two assertions, then the arguments of *)
(* prepare_mask are evaluated (init_image.shape among them) and            *)
(* prepare_mask is called; note the order of the two adjust arguments.     *)
(***************************************************************************)
Shape(image) == <<image.d0, image.d1, image.d2>>

MaskAssertsSourceOnly(a, mi) ==
    IF ~(a.mask_file # None \/ mi # NoImage) THEN 155 ELSE 0

\* the assertions of lines 155-156: the line of the one that fails, or 0
MaskAsserts(a, mi) ==
    IF ~(a.mask_file # None \/ mi # NoImage) THEN 155
    ELSE IF ~a.use_init THEN 156
    ELSE 0

\* lines 154-170 as a function of the locals: the mask, the exception raised
\* (or NoExc) and the steps taken
MaskStep(a, image, mi) ==
    IF ~a.use_mask
    THEN [mask |-> NoMask, exc |-> NoExc, steps |-> <<>>]
    ELSE IF MaskAsserts(a, mi) # 0
    THEN [mask |-> NoMask, exc |-> Raise("AssertionError", MaskAsserts(a, mi)),
          steps |-> <<>>]
    ELSE IF ~HasShape(image)
    THEN [mask |-> NoMask, exc |-> Raise("AttributeError", 160),
          steps |-> <<"validate_mask">>]
    ELSE LET r == prepare_mask(IF mi = NoImage THEN a.mask_file ELSE mi,
                               Shape(image),
                               a.mask_contrast_adjust,
                               a.mask_brightness_adjust,
                               a.invert_mask)
         IN  [mask |-> r.mask, exc |-> r.exc,
              steps |-> <<"validate_mask", "prepare_mask">>]

MaskStagePopulatingFirst ==
    /\ pc = "mask"
    /\ LET r == MaskStep(args, init_image, mask_image)
       IN  /\ mask' = r.mask
           /\ exc' = r.exc
           /\ pc' = IF r.exc = NoExc THEN "overlay" ELSE "raised"
           /\ trace' = trace \o <<"mask_stage">> \o r.steps
    /\ p' = [p EXCEPT !.init_images = <<init_image>>]
    /\ written' = written \cup {"init_images"}
    /\ UNCHANGED <<args, args0, frame, return_sample, parsed_prompt, init_image,
                   mask_image, branches, processed, results, evals, root, root0>>

MaskStage ==
    /\ pc = "mask"
    /\ LET r == MaskStep(args, init_image, mask_image)
       IN  /\ mask' = r.mask
           /\ exc' = r.exc
           /\ pc' = IF r.exc = NoExc THEN "overlay" ELSE "raised"
           /\ trace' = trace \o <<"mask_stage">> \o r.steps
    /\ UNCHANGED <<args, args0, frame, return_sample, parsed_prompt, init_image,
                   mask_image, branches, processed, results, evals, p, written,
                   root, root0>>

(***************************************************************************)
(* Line 172: the overlay-mask assertion.                                   *)
(***************************************************************************)
OverlayCheck ==
    /\ pc = "overlay"
    /\ IF (args.use_mask /\ args.overlay_mask)
            /\ (args.init_sample = NoArray /\ init_image = NoImage)
       THEN /\ pc' = "raised"
            /\ exc' = Raise("AssertionError", 172)
       ELSE /\ pc' = "populate"
            /\ exc' = exc
    /\ trace' = trace \o <<"validate_overlay">>
    /\ UNCHANGED <<args, args0, frame, return_sample, parsed_prompt, init_image,
                   mask_image, mask, branches, processed, results, evals, p, written,
                   root, root0>>

(***************************************************************************)
(* Lines 174-175: p.init_images and p.mask.                                *)
(***************************************************************************)
Populate ==
    /\ pc = "populate"
    /\ p' = [p EXCEPT !.init_images = <<init_image>>, !.mask = mask]
    /\ written' = written \cup {"init_images", "mask"}
    /\ pc' = "dispatch"
    /\ trace' = trace \o <<"populate_images">>
    /\ UNCHANGED <<args, args0, frame, return_sample, parsed_prompt, init_image,
                   mask_image, mask, branches, processed, results, exc, evals,
                   root, root0>>

(***************************************************************************)
(* Line 177: processing.process_images(p) returns a result or raises.      *)
(***************************************************************************)
Dispatch ==
    /\ pc = "dispatch"
    /\ trace' = trace \o <<"dispatch">>
    /\ \/ \E r \in Processeds :
            /\ processed' = r
            /\ pc' = "record"
            /\ exc' = exc
       \/ /\ processed' = processed
          /\ pc' = "raised"
          /\ exc' = Raise("DispatchError", 177)
    /\ UNCHANGED <<args, args0, frame, return_sample, parsed_prompt, init_image,
                   mask_image, mask, branches, results, evals, p, written, root,
                   root0>>

(***************************************************************************)
(* Lines 179-184: the first-result record of root.                         *)
(***************************************************************************)
Record ==
    /\ pc = "record"
    /\ LET r1 == IF root.initial_info = None
                 THEN [root EXCEPT !.initial_seed = processed.seed,
                                   !.initial_info = processed.info]
                 ELSE root
       IN  root' = IF r1.first_frame = None
                   THEN [r1 EXCEPT !.first_frame = processed.images[1]]
                   ELSE r1
    /\ pc' = "return"
    /\ trace' = trace \o <<"record">>
    /\ UNCHANGED <<args, args0, frame, return_sample, parsed_prompt, init_image,
                   mask_image, mask, branches, processed, results, exc, evals,
                   p, written, root0>>

(***************************************************************************)
(* Lines 186-195: with return_sample, line 187 reads the local name image  *)
(* before any assignment to it; otherwise the first image is returned.     *)
(***************************************************************************)
Return ==
    /\ pc = "return"
    /\ IF return_sample
       THEN /\ results' = results
            /\ pc' = "raised"
            /\ exc' = Raise("UnboundLocalError", 187)
       ELSE /\ results' = <<processed.images[1]>>
            /\ pc' = "done"
            /\ exc' = exc
    /\ trace' = trace \o <<"return">>
    /\ UNCHANGED <<args, args0, frame, return_sample, parsed_prompt, init_image,
                   mask_image, mask, branches, processed, evals, p, written, root,
                   root0>>

(***************************************************************************)
(* The call ends: its result or its exception goes to the caller and its   *)
(* frame (the locals of generate) is gone.  root.p and the first-result    *)
(* record of root stay as the call left them.                              *)
(***************************************************************************)
Exit ==
    /\ pc \in {"done", "raised"}
    /\ pc' = "idle"
    /\ args' = IdleArgs
    /\ args0' = IdleArgs
    /\ frame' = 0
    /\ return_sample' = FALSE
    /\ parsed_prompt' = NoPrompt
    /\ init_image' = NoImage
    /\ mask_image' = NoImage
    /\ mask' = NoMask
    /\ branches' = {}
    /\ processed' = NoProcessed
    /\ results' = <<>>
    /\ exc' = NoExc
    /\ trace' = <<>>
    /\ evals' = <<>>
    /\ written' = {}
    /\ root0' = root
    /\ UNCHANGED <<p, root>>

Steps ==
    \/ Setup
    \/ StrengthPolicy
    \/ ResolveInit
    \/ MaskStage
    \/ OverlayCheck
    \/ Populate
    \/ Dispatch
    \/ Record
    \/ Return
    \/ Exit

(***************************************************************************)
(* Three specifications of the same program, one per family of calls.      *)
(***************************************************************************)
NextPrompt ==
    \/ \E c \in PromptCalls : Call(c)
    \/ Steps

NextInit ==
    \/ \E c \in InitCalls : Call(c)
    \/ Steps

NextMask ==
    \/ \E c \in MaskCalls : Call(c)
    \/ Steps

SpecPrompt == Init /\ [][NextPrompt]_vars
SpecInit == Init /\ [][NextInit]_vars
SpecMask == Init /\ [][NextMask]_vars

(***************************************************************************)
(* Properties.                                                             *)
(***************************************************************************)
InTrace(l) == \E i \in 1..Len(trace) : trace[i] = l
Position(l) == CHOOSE i \in 1..Len(trace) : trace[i] = l
Before(l, m) == InTrace(l) /\ InTrace(m) => Position(l) < Position(m)

\* C1: once the init image of a call is resolved, exactly one of the three
\* sources has been used, chosen by precedence: the carried-over sample when
\* init_sample is not None, else the explicit init when use_init is true and
\* the init reference is neither None nor empty, else synthetic noise; and
\* once the request is populated it carries exactly one init image, the one
\* of that source.
C1_InitPrecedence ==
    LET expected ==
            IF args0.init_sample # NoArray THEN "CarriedOverSample"
            ELSE IF args0.use_init /\ args0.init_image \notin {None, ""}
                 THEN "ExplicitInit"
                 ELSE "SyntheticNoise"
        data == IF expected = "CarriedOverSample" THEN "sample"
                ELSE IF expected = "ExplicitInit" THEN args0.init_image
                ELSE "noise"
    IN  /\ InTrace("resolve_init") => branches = {expected}
        /\ ~InTrace("resolve_init") => branches = {}
        /\ InTrace("populate_images") =>
              /\ Len(p.init_images) = 1
              /\ p.init_images[1] = init_image
              /\ p.init_images[1].kind = "PIL"
              /\ p.init_images[1].data = data

\* a completed call that was given a sample, use_init and an init reference,
\* and used the sample
C1_Witness ==
    /\ pc = "done"
    /\ args0.init_sample # NoArray
    /\ args0.use_init
    /\ args0.init_image = "init.png"
    /\ branches = {"CarriedOverSample"}
    /\ p.init_images = <<init_image>>
    /\ init_image.data = "sample"

\* C4: from the strength step on, the denoising strength of the request is 0
\* when use_init is false, the strength passed in is > 0 and
\* strength_0_no_init is true, and is the strength passed in otherwise; the
\* strength step comes before init-image and mask resolution.
C4_StrengthPolicy ==
    /\ InTrace("strength") =>
          p.denoising_strength =
              IF ~args0.use_init /\ args0.strength > 0 /\ args0.strength_0_no_init
              THEN 0 ELSE args0.strength
    /\ pc = "resolve" =>
          /\ InTrace("strength")
          /\ "denoising_strength" \in written
          /\ init_image = NoImage /\ mask_image = NoImage /\ branches = {}
    /\ Before("strength", "resolve_init")
    /\ Before("strength", "mask_stage")

\* a completed call whose strength 0.5 was reset to 0
C4_Witness ==
    /\ pc = "done"
    /\ ~args0.use_init /\ args0.strength = 5 /\ args0.strength_0_no_init
    /\ p.denoising_strength = 0

\* the mask stage (lines 154-170) of the current call has run
MaskStageRan == InTrace("mask_stage")
PreconditionFailed(lines) ==
    pc = "raised" /\ exc.type = "AssertionError" /\ exc.line \in lines

\* C5: with use_mask enabled, a call that reaches the mask stage fails with
\* an assertion error of lines 155-156 and never invokes the dispatcher
\* whenever mask_file is None and no mask was derived from the alpha channel
\* of the init image, or use_init is false; with use_mask disabled neither
\* assertion fails the call.
C5_MaskPreconditions ==
    MaskStageRan =>
        /\ (/\ args.use_mask
            /\ \/ args.mask_file = None /\ mask_image = NoImage
               \/ ~args.use_init)
           => /\ PreconditionFailed({155, 156})
              /\ ~InTrace("dispatch")
              /\ processed = NoProcessed
        /\ ~args.use_mask => ~PreconditionFailed({155, 156})
        /\ (args.use_mask /\ args.mask_file = None /\ mask_image = NoImage)
           => exc = Raise("AssertionError", 155)

\* a call with use_mask, a mask file and use_init false, failed at line 156
C5_Witness ==
    /\ MaskStageRan
    /\ args.use_mask /\ args.mask_file = "mask.png" /\ ~args.use_init
    /\ exc = Raise("AssertionError", 156)
    /\ pc = "raised"

(***************************************************************************)
(* The delimiter pairs of a prompt, by counting: the backticks of the      *)
(* prompt taken two by two from the left.                                  *)
(***************************************************************************)
TickPositions(s) == {i \in 1..Len(s) : s[i] = Tick}
NthTick(s, n) ==
    CHOOSE i \in TickPositions(s) :
        Cardinality({j \in TickPositions(s) : j < i}) = n - 1
NumPairs(s) == Cardinality(TickPositions(s)) \div 2
PairText(s, k) == SubSeq(s, NthTick(s, 2 * k - 1), NthTick(s, 2 * k))

RECURSIVE Substituted(_, _, _)
\* the prompt from the end of pair k - 1 on, each later pair replaced
Substituted(s, k, f) ==
    LET from == IF k = 1 THEN 1 ELSE NthTick(s, 2 * (k - 1)) + 1
    IN  IF k > NumPairs(s) THEN SubSeq(s, from, Len(s))
        ELSE SubSeq(s, from, NthTick(s, 2 * k - 1) - 1)
               \o parse_weight(PairText(s, k), f)
               \o Substituted(s, k + 1, f)

\* C8: the substitution fails exactly when one of the N delimiter pairs of
\* the prompt is malformed; otherwise the evaluator is called exactly N
\* times, on the pairs from left to right and with the frame of the call,
\* and the result is the prompt with each pair (delimiters included)
\* replaced by the evaluator result and every other character unchanged; a
\* prompt without a pair is returned unchanged.
C8_Substitution ==
    InTrace("substitute") =>
        LET s == args0.prompt
            N == NumPairs(s)
            malformed == \E k \in 1..N : ~WellFormed(PairText(s, k))
        IN  /\ (exc.type = "ExpressionError") <=> malformed
            /\ ~malformed =>
                  /\ Len(evals) = N
                  /\ \A k \in 1..N :
                        /\ evals[k].frame = frame
                        /\ evals[k].w_raw = PairText(s, k)
                  /\ parsed_prompt = Substituted(s, 1, frame)
                  /\ N = 0 => parsed_prompt = s

\* a completed call at frame 1 whose prompt had two pairs
C8_Witness ==
    /\ pc = "done"
    /\ frame = 1
    /\ args0.prompt = <<Tick, "t", Tick, Tick, "t", Tick>>
    /\ Len(evals) = 2
    /\ parsed_prompt = <<"1", "1">>

\* C2: the first-result record of root is written only by a call that
\* completes successfully and only while the record is empty: a record that
\* was populated when the call began is the same at every point of the call,
\* a call that raised has left the record as it found it, and a completed
\* call that found it empty has stored its own seed, info and first image.
C2_FirstResultOnce ==
    /\ root0 # EmptyRoot => root = root0
    /\ pc = "raised" => root = root0
    /\ (pc = "done" /\ root0 = EmptyRoot) =>
          root = [initial_seed |-> processed.seed,
                  initial_info |-> processed.info,
                  first_frame |-> processed.images[1]]

\* C3: once the prompt is split, the split has not failed, whatever the
\* number of --neg markers: the positive prompt is the text before the
\* marker and the negative prompt the text after it, and a prompt without
\* a marker is the positive prompt, with an empty negative prompt.
C3_NegSplit ==
    InTrace("populate_scalars") =>
        LET i == Find(parsed_prompt, NegMarker, 1)
        IN  /\ exc.type # "ValueError"
            /\ InTrace("split_prompt")
            /\ i = 0 => p.prompt = parsed_prompt /\ p.negative_prompt = <<>>
            /\ i # 0 =>
                  /\ p.prompt = SubSeq(parsed_prompt, 1, i - 1)
                  /\ p.negative_prompt =
                        SubSeq(parsed_prompt, i + Len(NegMarker), Len(parsed_prompt))

\* C6: the synthetic noise image has the requested geometry: its width is
\* args.W and its height is args.H.
C6_NoiseGeometry ==
    (InTrace("resolve_init") /\ branches = {"SyntheticNoise"}) =>
        /\ init_image.width = args.W
        /\ init_image.height = args.H

\* C7: with use_mask enabled, a mask source and use_init, the mask stage
\* completes and the mask is the prepared mask of the chosen source, sized
\* from the init image, with mask_brightness_adjust as its brightness,
\* mask_contrast_adjust as its contrast and invert_mask as its inversion;
\* with use_mask disabled the mask of the request is absent.
C7_MaskPrepared ==
    MaskStageRan =>
        /\ (/\ args.use_mask
            /\ args.mask_file # None \/ mask_image # NoImage
            /\ args.use_init)
           => /\ InTrace("prepare_mask")
              /\ exc = NoExc
              /\ mask.kind = "L"
              /\ mask.width = init_image.width /\ mask.height = init_image.height
              /\ mask.brightness = args.mask_brightness_adjust
              /\ mask.contrast = args.mask_contrast_adjust
              /\ mask.inverted = args.invert_mask
        /\ ~args.use_mask =>
              /\ mask = NoMask
              /\ InTrace("populate_images") => p.mask = NoMask

\* C9: a call with use_mask and overlay_mask that has passed the mask
\* preconditions evaluates the overlay-mask assertion of line 172, which
\* fails exactly when init_sample is None and no init image was resolved.
C9_OverlayCheck ==
    (/\ pc \in {"raised", "done"}
     /\ MaskStageRan
     /\ args.use_mask /\ args.overlay_mask
     /\ ~PreconditionFailed({155, 156}))
    => /\ InTrace("validate_overlay")
       /\ (exc = Raise("AssertionError", 172))
             <=> (args.init_sample = NoArray /\ init_image = NoImage)

(***************************************************************************)
(* The order of the steps of a call.                                       *)
(***************************************************************************)
StepOrder ==
    <<"substitute", "populate_scalars", "split_prompt", "strength",
      "resolve_init", "mask_stage", "validate_mask", "prepare_mask",
      "validate_overlay", "populate_images", "dispatch", "record", "return">>
Rank(l) == CHOOSE i \in 1..Len(StepOrder) : StepOrder[i] = l
ScalarFields == {"width", "height", "prompt", "negative_prompt", "denoising_strength"}

\* C10, as stated: the request is populated after the validations, so a
\* call that fails a precondition check (lines 155, 156, 172) has written no
\* field of root.p and has not invoked the dispatcher.
C10_NothingWrittenOnFailure ==
    /\ Before("validate_overlay", "populate_scalars")
    /\ PreconditionFailed({155, 156, 172}) =>
          /\ written = {}
          /\ ~InTrace("dispatch")

\* C10, amended: the steps of a call occur in the order of StepOrder:
\* substitution, the scalar fields and the prompts of the request, the
\* denoising strength, init-image resolution, the mask preconditions and
\* mask preparation, the overlay-mask check, init_images and mask of the
\* request, the dispatcher.  A call that fails a precondition check has
\* written the scalar, prompt and strength fields of root.p, has written
\* neither init_images nor mask, and has not invoked the dispatcher.
C10_OrderAndPartialWrite ==
    /\ \A i, j \in 1..Len(trace) : i < j => Rank(trace[i]) < Rank(trace[j])
    /\ InTrace("dispatch") =>
          \A l \in {"substitute", "populate_scalars", "split_prompt", "strength",
                    "resolve_init", "mask_stage", "validate_overlay",
                    "populate_images"} : InTrace(l)
    /\ "init_images" \in written => InTrace("populate_images")
    /\ PreconditionFailed({155, 156, 172}) =>
          /\ written = ScalarFields
          /\ p.width = args.W /\ p.height = args.H
          /\ p.denoising_strength = args.strength
          /\ ~InTrace("populate_images")
          /\ ~InTrace("dispatch")
          /\ processed = NoProcessed

\* a call that failed the assertion of line 155 after writing the scalars
C10_Witness ==
    /\ PreconditionFailed({155})
    /\ written = ScalarFields
    /\ p.width = args.W /\ p.height = args.H
    /\ p.init_images = <<>>

====
